---- MODULE Spec2Model ----
(***************************************************************************)
(* Model of the oa-bypass proxy: the credential resolver                   *)
(* (src/utils.rs, create_client_from_headers) and the request handlers     *)
(* that call it (src/routes/*.rs).                                         *)
(*                                                                         *)
(* Header names and values are byte strings, modelled as sequences of      *)
(* byte values 0..255, so that prefix stripping, the text check and the    *)
(* case folding of names are computed, not assumed.                        *)
(***************************************************************************)
EXTENDS Integers, Sequences, FiniteSets, TLC

VARIABLES
    headers,    \* resolver harness: the header fields, as sent, of the calls under study
    calls,      \* resolver harness: the calls made on `headers`, [use_beta, result] each
    other,      \* resolver harness: result of the latest call made on another input
    reqs,       \* server: the request held by each connection slot and its progress
    state,      \* server: the process-wide AppState shared by all handlers
    dropped     \* history: how many client configurations have gone with their
                \* finished request, counted up to MaxDropped where the
                \* specification counts them

harnessVars == <<headers, calls, other>>
serverVars == <<reqs, state, dropped>>
vars == <<headers, calls, other, reqs, state, dropped>>

---------------------------------------------------------------------------
(* Bounds of the model.                                                    *)

\* Longest credential suffix appended after the scheme prefixes of a value.
MaxSuffix == 2
\* Most calls of the resolver made on one header set in the harness.
MaxCalls == 2
\* Most requests the server handles at the same time.
MaxInFlight == 1

---------------------------------------------------------------------------
(* Byte strings.                                                           *)

\* "Bearer " and "bearer ": the two prefixes of utils.rs:45-46.
Bearer_ == <<66, 101, 97, 114, 101, 114, 32>>
bearer_ == <<98, 101, 97, 114, 101, 114, 32>>
\* "BEARER " and "Bearer" (no space): values the code does not strip.
BEARER_ == <<66, 69, 65, 82, 69, 82, 32>>
BearerNoSpace == <<66, 101, 97, 114, 101, 114>>

\* The two lookup keys of utils.rs:34-35.
KeyLower == <<97, 117, 116, 104, 111, 114, 105, 122, 97, 116, 105, 111, 110>>
KeyCapital == <<65, 117, 116, 104, 111, 114, 105, 122, 97, 116, 105, 111, 110>>

\* "OpenAI-Beta" and "assistants=v2" of utils.rs:60.
OpenAIBeta == <<79, 112, 101, 110, 65, 73, 45, 66, 101, 116, 97>>
AssistantsV2 == <<97, 115, 115, 105, 115, 116, 97, 110, 116, 115, 61, 118, 50>>

\* The error messages of utils.rs:36, 41, 51 and 61 (the source literals are
\* Russian; they are written here transliterated, one distinct text each).
MsgMissing == "Authorization zagolovok ne naiden"
MsgInvalidFormat == "Nevernyi format Authorization zagolovka"
MsgEmptyKey == "API klyuch pustoi"
MsgConfig == "Oshibka sozdaniya konfiguratsii"

\* ASCII lower-casing of one byte, as HeaderName does when it parses a name.
ToLowerByte(b) == IF b >= 65 /\ b <= 90 THEN b + 32 ELSE b

ToLower(s) == [i \in DOMAIN s |-> ToLowerByte(s[i])]

\* The bytes a header name may hold (RFC 7230 token characters).
IsTokenByte(b) ==
    \/ b >= 48 /\ b <= 57
    \/ b >= 65 /\ b <= 90
    \/ b >= 97 /\ b <= 122
    \/ b \in {33, 35, 36, 37, 38, 39, 42, 43, 45, 46, 94, 95, 96, 124, 126}

\* The bytes a HeaderValue may hold: visible ASCII, space, tab and obs-text.
IsValueByte(b) == (b >= 32 /\ b # 127 /\ b <= 255) \/ b = 9

\* The bytes HeaderValue::to_str accepts: visible ASCII, space and tab.
IsTextByte(b) == (b >= 32 /\ b < 127) \/ b = 9

---------------------------------------------------------------------------
(* HeaderMap: the fields in arrival order, names folded to lower case.     *)

\* Mutant: names kept as spelled, neither stored names nor lookup keys folded.
HeaderNameVerbatim(name) == name

\* HeaderName parsing, applied to every stored name and to every lookup key:
\* the name folded to lower case.
HeaderName(name) == ToLower(name)

\* The HeaderMap a handler receives for the fields a client sent.
HeaderMapOf(fields) ==
    [i \in DOMAIN fields |->
        [name |-> HeaderName(fields[i].name), value |-> fields[i].value]]

\* HeaderMap::get(key): the first value stored under the key; <<>> is None,
\* <<v>> is Some(v).
HeaderMapGet(map, key) ==
    LET hits == {i \in DOMAIN map : map[i].name = HeaderName(key)}
    IN  IF hits = {} THEN <<>>
        ELSE <<map[CHOOSE i \in hits : \A j \in hits : i <= j].value>>

---------------------------------------------------------------------------
(* The credential resolver, src/utils.rs.                                  *)

\* Result values: Ok(client) carries the client's configuration in a
\* one-element sequence, Err(AppError(msg)) carries the message and nothing.
Ok(config) == [ok |-> TRUE, error |-> "", client |-> <<config>>]
Err(msg) == [ok |-> FALSE, error |-> msg, client |-> <<>>]

\* HeaderValue::to_str: Some(text) when every byte is text, else None.
to_str(value) ==
    IF \A i \in DOMAIN value : IsTextByte(value[i]) THEN <<value>> ELSE <<>>

\* str::strip_prefix: Some(rest) when s starts with prefix, else None.
strip_prefix(s, prefix) ==
    IF Len(s) >= Len(prefix) /\ SubSeq(s, 1, Len(prefix)) = prefix
    THEN <<SubSeq(s, Len(prefix) + 1, Len(s))>>
    ELSE <<>>

\* Option::or_else: the first option when it is Some, else the second.
or_else(first, second) == IF first # <<>> THEN first ELSE second

\* Option::unwrap_or.
unwrap_or(opt, default) == IF opt # <<>> THEN opt[1] ELSE default

\* utils.rs:33-35: the lookup under "authorization", then "Authorization".
LookupAuthorization(map) ==
    or_else(HeaderMapGet(map, KeyLower), HeaderMapGet(map, KeyCapital))

\* Mutant: only the capitalised scheme is stripped.
ApiKeyOfCapitalOnly(auth_str) ==
    unwrap_or(strip_prefix(auth_str, Bearer_), auth_str)

\* Mutant: the scheme is matched without regard to case.
ApiKeyOfAnyCase(auth_str) ==
    IF Len(auth_str) >= 7 /\ ToLower(SubSeq(auth_str, 1, 7)) = bearer_
    THEN SubSeq(auth_str, 8, Len(auth_str))
    ELSE auth_str

\* Mutant: what is left after a prefix is stripped is stripped once more.
ApiKeyOfRepeated(auth_str) ==
    LET once == unwrap_or(
                    or_else(strip_prefix(auth_str, Bearer_),
                            strip_prefix(auth_str, bearer_)),
                    auth_str)
    IN  unwrap_or(
            or_else(strip_prefix(once, Bearer_), strip_prefix(once, bearer_)),
            once)

\* utils.rs:44-48: "Bearer " stripped, else "bearer " stripped, else the value.
ApiKeyOf(auth_str) ==
    unwrap_or(
        or_else(strip_prefix(auth_str, Bearer_), strip_prefix(auth_str, bearer_)),
        auth_str)

\* Mutant: a key made of blanks only counts as empty.
is_empty_trimmed(api_key) ==
    \A i \in DOMAIN api_key : api_key[i] \in {32, 9}

\* Mutant: no key counts as empty.
is_empty_never(api_key) == FALSE

\* String::is_empty of utils.rs:50.
is_empty(api_key) == Len(api_key) = 0

\* OpenAIConfig::new().with_api_key(api_key) of utils.rs:55: the key set, no
\* extra header.
with_api_key(api_key) == [api_key |-> api_key, headers |-> <<>>]

\* OpenAIConfig::with_header: Ok(config with the header added), or Err when
\* the name or the value is no legal header name or value.
with_header(config, name, value) ==
    IF /\ Len(name) > 0
       /\ \A i \in DOMAIN name : IsTokenByte(name[i])
       /\ \A i \in DOMAIN value : IsValueByte(value[i])
    THEN [ok |-> TRUE,
          config |-> [config EXCEPT !.headers =
              Append(@, [name |-> HeaderName(name), value |-> value])]]
    ELSE [ok |-> FALSE, config |-> config]

\* Mutant: the beta header is attached whatever the flag.
ConfigForAlways(api_key, beta) ==
    with_header(with_api_key(api_key), OpenAIBeta, AssistantsV2)

\* utils.rs:55-62: the configuration for a key, with the beta header when
\* the flag is set; ok is FALSE when with_header refuses the header.
ConfigFor(api_key, beta) ==
    IF beta
    THEN with_header(with_api_key(api_key), OpenAIBeta, AssistantsV2)
    ELSE [ok |-> TRUE, config |-> with_api_key(api_key)]

\* The harness's record of "no call made yet".
NoCall == Err("no call")

\* Mutant: a value that is not text is reported like a missing header.
ErrInvalidFormatAsMissing == Err(MsgMissing)

\* utils.rs:41: the error of a value that is not text.
ErrInvalidFormat == Err(MsgInvalidFormat)

\* Mutant: a client built by an earlier call is reused when there is one.
create_client_from_headers_cached(map, beta) ==
    IF other.ok THEN other
    ELSE LET found == LookupAuthorization(map)
         IN  IF found = <<>> THEN Err(MsgMissing)
             ELSE IF to_str(found[1]) = <<>> THEN ErrInvalidFormat
             ELSE IF is_empty(ApiKeyOf(found[1])) THEN Err(MsgEmptyKey)
             ELSE Ok(ConfigFor(ApiKeyOf(found[1]), beta).config)

\* utils.rs:31-65, create_client_from_headers(headers, use_beta).
create_client_from_headers(map, beta) ==
    LET auth_header == LookupAuthorization(map)
    IN  IF auth_header = <<>> THEN Err(MsgMissing)
        ELSE
        LET auth_opt == to_str(auth_header[1])
        IN  IF auth_opt = <<>> THEN ErrInvalidFormat
            ELSE
            LET api_key == ApiKeyOf(auth_opt[1])
            IN  IF is_empty(api_key) THEN Err(MsgEmptyKey)
                ELSE
                LET built == ConfigFor(api_key, beta)
                IN  IF built.ok THEN Ok(built.config) ELSE Err(MsgConfig)

---------------------------------------------------------------------------
(* The handlers, src/routes/*.rs.  Each handler is described by what       *)
(* distinguishes it in the source: the beta flag it passes to the          *)
(* resolver, the body extractor it declares, the upstream operation it     *)
(* calls, the prefix of its error message and the values it logs.  Path    *)
(* parameters are written as in the route patterns, e.g. "{thread_id}".    *)

\* routes/completions.rs:41-62.
chat_completions ==
    [name |-> "chat_completions", family |-> "completions", use_beta |-> FALSE, body |-> "json",
     op |-> "chat.create", err |-> "Chat completion error",
     logs_in |-> <<"request.model">>, logs_out |-> <<>>]

\* routes/completions.rs:91-112.
completions ==
    [name |-> "completions", family |-> "completions", use_beta |-> FALSE, body |-> "json",
     op |-> "completions.create", err |-> "Text completion error",
     logs_in |-> <<"request.model">>, logs_out |-> <<>>]

\* routes/embeddings.rs:24-44.
embeddings ==
    [name |-> "embeddings", family |-> "embeddings", use_beta |-> FALSE, body |-> "json",
     op |-> "embeddings.create", err |-> "Embedding error",
     logs_in |-> <<"request.model">>, logs_out |-> <<>>]

\* routes/models.rs:24-43.
list_models ==
    [name |-> "list_models", family |-> "models", use_beta |-> FALSE, body |-> "none",
     op |-> "models.list", err |-> "List models error",
     logs_in |-> <<>>, logs_out |-> <<>>]

\* routes/models.rs:55-75.
get_model ==
    [name |-> "get_model", family |-> "models", use_beta |-> FALSE, body |-> "none",
     op |-> "models.retrieve", err |-> "Get model error",
     logs_in |-> <<"{model_id}">>, logs_out |-> <<>>]

\* routes/images.rs:21-41.
create_image ==
    [name |-> "create_image", family |-> "images", use_beta |-> FALSE, body |-> "json",
     op |-> "images.generate", err |-> "Image generation error",
     logs_in |-> <<>>, logs_out |-> <<>>]

\* routes/assistants.rs:36-56.
create_assistant ==
    [name |-> "create_assistant", family |-> "assistants", use_beta |-> TRUE, body |-> "json",
     op |-> "assistants.create", err |-> "Create assistant error",
     logs_in |-> <<>>, logs_out |-> <<"response.id">>]

\* routes/assistants.rs:67-86.
list_assistants ==
    [name |-> "list_assistants", family |-> "assistants", use_beta |-> TRUE, body |-> "none",
     op |-> "assistants.list", err |-> "List assistants error",
     logs_in |-> <<>>, logs_out |-> <<>>]

\* routes/assistants.rs:98-118.
get_assistant ==
    [name |-> "get_assistant", family |-> "assistants", use_beta |-> TRUE, body |-> "none",
     op |-> "assistants.retrieve", err |-> "Get assistant error",
     logs_in |-> <<"{assistant_id}">>, logs_out |-> <<>>]

\* routes/assistants.rs:131-152.
modify_assistant ==
    [name |-> "modify_assistant", family |-> "assistants", use_beta |-> TRUE, body |-> "json",
     op |-> "assistants.update", err |-> "Modify assistant error",
     logs_in |-> <<"{assistant_id}">>, logs_out |-> <<>>]

\* routes/assistants.rs:164-184.
delete_assistant ==
    [name |-> "delete_assistant", family |-> "assistants", use_beta |-> TRUE, body |-> "none",
     op |-> "assistants.delete", err |-> "Delete assistant error",
     logs_in |-> <<"{assistant_id}">>, logs_out |-> <<>>]

\* routes/threads.rs:27-47.
create_thread ==
    [name |-> "create_thread", family |-> "threads", use_beta |-> TRUE, body |-> "json",
     op |-> "threads.create", err |-> "Create thread error",
     logs_in |-> <<>>, logs_out |-> <<"response.id">>]

\* routes/threads.rs:59-79.
get_thread ==
    [name |-> "get_thread", family |-> "threads", use_beta |-> TRUE, body |-> "none",
     op |-> "threads.retrieve", err |-> "Get thread error",
     logs_in |-> <<"{thread_id}">>, logs_out |-> <<>>]

\* routes/threads.rs:92-113.
modify_thread ==
    [name |-> "modify_thread", family |-> "threads", use_beta |-> TRUE, body |-> "json",
     op |-> "threads.update", err |-> "Modify thread error",
     logs_in |-> <<"{thread_id}">>, logs_out |-> <<>>]

\* routes/threads.rs:125-145.
delete_thread ==
    [name |-> "delete_thread", family |-> "threads", use_beta |-> TRUE, body |-> "none",
     op |-> "threads.delete", err |-> "Delete thread error",
     logs_in |-> <<"{thread_id}">>, logs_out |-> <<>>]

\* routes/messages.rs:28-50.
create_message ==
    [name |-> "create_message", family |-> "messages", use_beta |-> TRUE, body |-> "json",
     op |-> "threads.messages.create", err |-> "Create message error",
     logs_in |-> <<"{thread_id}">>, logs_out |-> <<"response.id">>]

\* routes/messages.rs:62-83.
list_messages ==
    [name |-> "list_messages", family |-> "messages", use_beta |-> TRUE, body |-> "none",
     op |-> "threads.messages.list", err |-> "List messages error",
     logs_in |-> <<"{thread_id}">>, logs_out |-> <<>>]

\* routes/messages.rs:96-120.
get_message ==
    [name |-> "get_message", family |-> "messages", use_beta |-> TRUE, body |-> "none",
     op |-> "threads.messages.retrieve", err |-> "Get message error",
     logs_in |-> <<"{message_id}", "{thread_id}">>, logs_out |-> <<>>]

\* routes/messages.rs:134-159.
modify_message ==
    [name |-> "modify_message", family |-> "messages", use_beta |-> TRUE, body |-> "json",
     op |-> "threads.messages.update", err |-> "Modify message error",
     logs_in |-> <<"{message_id}", "{thread_id}">>, logs_out |-> <<>>]

\* routes/runs.rs:30-52.
create_run ==
    [name |-> "create_run", family |-> "runs", use_beta |-> TRUE, body |-> "json",
     op |-> "threads.runs.create", err |-> "Create run error",
     logs_in |-> <<"{thread_id}">>, logs_out |-> <<"response.id">>]

\* routes/runs.rs:64-85.
list_runs ==
    [name |-> "list_runs", family |-> "runs", use_beta |-> TRUE, body |-> "none",
     op |-> "threads.runs.list", err |-> "List runs error",
     logs_in |-> <<"{thread_id}">>, logs_out |-> <<>>]

\* routes/runs.rs:98-119.
get_run ==
    [name |-> "get_run", family |-> "runs", use_beta |-> TRUE, body |-> "none",
     op |-> "threads.runs.retrieve", err |-> "Get run error",
     logs_in |-> <<"{run_id}", "{thread_id}">>, logs_out |-> <<>>]

\* routes/runs.rs:133-155.
modify_run ==
    [name |-> "modify_run", family |-> "runs", use_beta |-> TRUE, body |-> "json",
     op |-> "threads.runs.update", err |-> "Modify run error",
     logs_in |-> <<"{run_id}", "{thread_id}">>, logs_out |-> <<>>]

\* routes/runs.rs:168-189.
cancel_run ==
    [name |-> "cancel_run", family |-> "runs", use_beta |-> TRUE, body |-> "none",
     op |-> "threads.runs.cancel", err |-> "Cancel run error",
     logs_in |-> <<"{run_id}", "{thread_id}">>, logs_out |-> <<>>]

\* routes/runs.rs:203-228.
submit_tool_outputs ==
    [name |-> "submit_tool_outputs", family |-> "runs", use_beta |-> TRUE, body |-> "json",
     op |-> "threads.runs.submit_tool_outputs", err |-> "Submit tool outputs error",
     logs_in |-> <<"{run_id}", "{thread_id}">>, logs_out |-> <<>>]

\* routes/runs.rs:240-260.
create_thread_and_run ==
    [name |-> "create_thread_and_run", family |-> "runs", use_beta |-> TRUE, body |-> "json",
     op |-> "threads.create_and_run", err |-> "Create thread and run error",
     logs_in |-> <<>>, logs_out |-> <<"response.id">>]

\* routes/files.rs:38-113.
upload_file ==
    [name |-> "upload_file", family |-> "files", use_beta |-> FALSE, body |-> "multipart",
     op |-> "files.create", err |-> "Upload file error",
     logs_in |-> <<>>, logs_out |-> <<"response.id">>]

\* routes/files.rs:124-139.
list_files ==
    [name |-> "list_files", family |-> "files", use_beta |-> FALSE, body |-> "none",
     op |-> "files.list", err |-> "List files error",
     logs_in |-> <<>>, logs_out |-> <<>>]

\* routes/files.rs:151-171.
get_file ==
    [name |-> "get_file", family |-> "files", use_beta |-> FALSE, body |-> "none",
     op |-> "files.retrieve", err |-> "Get file error",
     logs_in |-> <<"{file_id}">>, logs_out |-> <<>>]

\* routes/files.rs:183-203.
delete_file ==
    [name |-> "delete_file", family |-> "files", use_beta |-> FALSE, body |-> "none",
     op |-> "files.delete", err |-> "Delete file error",
     logs_in |-> <<"{file_id}">>, logs_out |-> <<>>]

\* routes/files.rs:215-235.
get_file_content ==
    [name |-> "get_file_content", family |-> "files", use_beta |-> FALSE, body |-> "none",
     op |-> "files.content", err |-> "Get file content error",
     logs_in |-> <<"{file_id}">>, logs_out |-> <<"bytes.len()">>]

\* Mutant: create_response asks the resolver for the beta header.
create_response_beta ==
    [name |-> "create_response", family |-> "responses", use_beta |-> TRUE, body |-> "json",
     op |-> "responses.create", err |-> "Create response error",
     logs_in |-> <<>>, logs_out |-> <<"response.id">>]

\* routes/responses.rs:25-45.
create_response ==
    [name |-> "create_response", family |-> "responses", use_beta |-> FALSE, body |-> "json",
     op |-> "responses.create", err |-> "Create response error",
     logs_in |-> <<>>, logs_out |-> <<"response.id">>]

\* routes/responses.rs:57-77.
get_response ==
    [name |-> "get_response", family |-> "responses", use_beta |-> FALSE, body |-> "none",
     op |-> "responses.retrieve", err |-> "Get response error",
     logs_in |-> <<"{response_id}">>, logs_out |-> <<"{response_id}">>]

\* routes/responses.rs:89-109.
delete_response ==
    [name |-> "delete_response", family |-> "responses", use_beta |-> FALSE, body |-> "none",
     op |-> "responses.delete", err |-> "Delete response error",
     logs_in |-> <<"{response_id}">>, logs_out |-> <<"{response_id}">>]

\* routes/responses.rs:121-141.
cancel_response ==
    [name |-> "cancel_response", family |-> "responses", use_beta |-> FALSE, body |-> "none",
     op |-> "responses.cancel", err |-> "Cancel response error",
     logs_in |-> <<"{response_id}">>, logs_out |-> <<"{response_id}">>]

Handlers ==
    { chat_completions, completions, embeddings, list_models,
      get_model, create_image, create_assistant, list_assistants,
      get_assistant, modify_assistant, delete_assistant, create_thread,
      get_thread, modify_thread, delete_thread, create_message,
      list_messages, get_message, modify_message, create_run,
      list_runs, get_run, modify_run, cancel_run,
      submit_tool_outputs, create_thread_and_run, upload_file, list_files,
      get_file, delete_file, get_file_content, create_response,
      get_response, delete_response, cancel_response }

\* routes/mod.rs:40-98: the routes registered by create_router, in order.
RouteTable ==
    { [method |-> "GET", pattern |-> <<>>, handler |-> "health_check"],
      [method |-> "GET", pattern |-> <<"health">>, handler |-> "health_check"],
      [method |-> "POST", pattern |-> <<"v1", "chat", "completions">>, handler |-> "chat_completions"],
      [method |-> "POST", pattern |-> <<"v1", "completions">>, handler |-> "completions"],
      [method |-> "POST", pattern |-> <<"v1", "embeddings">>, handler |-> "embeddings"],
      [method |-> "GET", pattern |-> <<"v1", "models">>, handler |-> "list_models"],
      [method |-> "GET", pattern |-> <<"v1", "models", "{model_id}">>, handler |-> "get_model"],
      [method |-> "POST", pattern |-> <<"v1", "images", "generations">>, handler |-> "create_image"],
      [method |-> "POST", pattern |-> <<"v1", "assistants">>, handler |-> "create_assistant"],
      [method |-> "GET", pattern |-> <<"v1", "assistants">>, handler |-> "list_assistants"],
      [method |-> "GET", pattern |-> <<"v1", "assistants", "{assistant_id}">>, handler |-> "get_assistant"],
      [method |-> "POST", pattern |-> <<"v1", "assistants", "{assistant_id}">>, handler |-> "modify_assistant"],
      [method |-> "DELETE", pattern |-> <<"v1", "assistants", "{assistant_id}">>, handler |-> "delete_assistant"],
      [method |-> "POST", pattern |-> <<"v1", "threads">>, handler |-> "create_thread"],
      [method |-> "GET", pattern |-> <<"v1", "threads", "{thread_id}">>, handler |-> "get_thread"],
      [method |-> "POST", pattern |-> <<"v1", "threads", "{thread_id}">>, handler |-> "modify_thread"],
      [method |-> "DELETE", pattern |-> <<"v1", "threads", "{thread_id}">>, handler |-> "delete_thread"],
      [method |-> "POST", pattern |-> <<"v1", "threads", "{thread_id}", "messages">>, handler |-> "create_message"],
      [method |-> "GET", pattern |-> <<"v1", "threads", "{thread_id}", "messages">>, handler |-> "list_messages"],
      [method |-> "GET", pattern |-> <<"v1", "threads", "{thread_id}", "messages", "{message_id}">>, handler |-> "get_message"],
      [method |-> "POST", pattern |-> <<"v1", "threads", "{thread_id}", "messages", "{message_id}">>, handler |-> "modify_message"],
      [method |-> "POST", pattern |-> <<"v1", "threads", "{thread_id}", "runs">>, handler |-> "create_run"],
      [method |-> "GET", pattern |-> <<"v1", "threads", "{thread_id}", "runs">>, handler |-> "list_runs"],
      [method |-> "GET", pattern |-> <<"v1", "threads", "{thread_id}", "runs", "{run_id}">>, handler |-> "get_run"],
      [method |-> "POST", pattern |-> <<"v1", "threads", "{thread_id}", "runs", "{run_id}">>, handler |-> "modify_run"],
      [method |-> "POST", pattern |-> <<"v1", "threads", "{thread_id}", "runs", "{run_id}", "cancel">>, handler |-> "cancel_run"],
      [method |-> "POST", pattern |-> <<"v1", "threads", "{thread_id}", "runs", "{run_id}", "submit_tool_outputs">>, handler |-> "submit_tool_outputs"],
      [method |-> "POST", pattern |-> <<"v1", "threads", "runs">>, handler |-> "create_thread_and_run"],
      [method |-> "POST", pattern |-> <<"v1", "files">>, handler |-> "upload_file"],
      [method |-> "GET", pattern |-> <<"v1", "files">>, handler |-> "list_files"],
      [method |-> "GET", pattern |-> <<"v1", "files", "{file_id}">>, handler |-> "get_file"],
      [method |-> "DELETE", pattern |-> <<"v1", "files", "{file_id}">>, handler |-> "delete_file"],
      [method |-> "GET", pattern |-> <<"v1", "files", "{file_id}", "content">>, handler |-> "get_file_content"],
      [method |-> "POST", pattern |-> <<"v1", "responses">>, handler |-> "create_response"],
      [method |-> "GET", pattern |-> <<"v1", "responses", "{response_id}">>, handler |-> "get_response"],
      [method |-> "DELETE", pattern |-> <<"v1", "responses", "{response_id}">>, handler |-> "delete_response"],
      [method |-> "POST", pattern |-> <<"v1", "responses", "{response_id}", "cancel">>, handler |-> "cancel_response"] }

---------------------------------------------------------------------------
(* Routing, src/routes/mod.rs.  A path is the sequence of its segments.    *)

\* The handler of the two liveness routes, routes/mod.rs:111-113.
health_check ==
    [name |-> "health_check", family |-> "health", use_beta |-> FALSE, body |-> "none",
     op |-> "", err |-> "", logs_in |-> <<>>, logs_out |-> <<>>]

HandlerNamed(name) == CHOOSE h \in Handlers \cup {health_check} : h.name = name

Patterns == {route.pattern : route \in RouteTable}

\* A pattern segment written {name} captures one path segment.
IsParam(segment) ==
    segment \in {"{model_id}", "{assistant_id}", "{thread_id}", "{message_id}",
                 "{run_id}", "{file_id}", "{response_id}"}

Matches(pattern, path) ==
    /\ Len(pattern) = Len(path)
    /\ \A i \in DOMAIN pattern : IsParam(pattern[i]) \/ pattern[i] = path[i]

\* Mutant: the router prefers a captured segment to a literal one.
PrefersCaptured(p, q) ==
    \E i \in DOMAIN p :
        /\ IsParam(p[i]) /\ ~IsParam(q[i])
        /\ \A j \in 1..(i - 1) : IsParam(p[j]) = IsParam(q[j])

\* The router prefers a literal segment to a captured one, from the left.
Prefers(p, q) ==
    \E i \in DOMAIN p :
        /\ ~IsParam(p[i]) /\ IsParam(q[i])
        /\ \A j \in 1..(i - 1) : IsParam(p[j]) = IsParam(q[j])

\* The pattern a path is routed to: <<>> when none matches, else <<pattern>>.
MatchedPattern(path) ==
    LET matching == {p \in Patterns : Matches(p, path)}
    IN  IF matching = {} THEN <<>>
        ELSE <<CHOOSE p \in matching : \A q \in matching \ {p} : Prefers(p, q)>>

\* The value captured for a path parameter.
ParamValue(pattern, path, param) ==
    path[CHOOSE i \in DOMAIN pattern : pattern[i] = param]

\* Mutant: the handlers registered on the matched pattern serve every
\* method.
DispatchAnyMethod(method, path) ==
    LET matched == MatchedPattern(path)
    IN  IF matched = <<>> THEN [handler |-> "", status |-> 404]
        ELSE LET routes == {route \in RouteTable : route.pattern = matched[1]}
                 own == {route \in routes : route.method = method}
             IN  [handler |-> (CHOOSE route \in routes :
                                  own # {} => route \in own).handler,
                  status |-> 200]

\* The handler a request is dispatched to: "" with status 404 when no pattern
\* matches the path, "" with status 405 when the matched pattern has no
\* handler for the method.
Dispatch(method, path) ==
    LET matched == MatchedPattern(path)
    IN  IF matched = <<>> THEN [handler |-> "", status |-> 404]
        ELSE LET routes == {route \in RouteTable :
                                route.pattern = matched[1] /\ route.method = method}
             IN  IF routes = {} THEN [handler |-> "", status |-> 405]
                 ELSE [handler |-> (CHOOSE route \in routes : TRUE).handler,
                       status |-> 200]

---------------------------------------------------------------------------
(* Requests, responses and the upstream.                                   *)

\* Request bodies.  A multipart body is its fields in order; `truncated`
\* says the stream breaks after the last field instead of ending.
EmptyBody == [kind |-> "empty", model |-> "", parts |-> <<>>, truncated |-> FALSE]
JsonBody == [kind |-> "json", model |-> "gpt", parts |-> <<>>, truncated |-> FALSE]
MalformedBody == [kind |-> "malformed", model |-> "", parts |-> <<>>, truncated |-> FALSE]
MultipartBody(parts, truncated) ==
    [kind |-> "multipart", model |-> "", parts |-> parts, truncated |-> truncated]

\* One multipart field: its name, its file name (<<>> when it has none), its
\* content, and whether its content can be read to the end.
Part(name, file_name, data, readable) ==
    [name |-> name, file_name |-> file_name, data |-> data, readable |-> readable]

\* Mutant: errors are answered 400 Bad Request, the body unprefixed.
into_response_bad_request(message) == [status |-> 400, body |-> message]

\* error.rs:19-25, AppError::into_response: status 500, the message after a
\* fixed prefix (the source prefix is the Russian word for "Error").
into_response(message) == [status |-> 500, body |-> <<"Oshibka: ">> \o message]

\* Json(response) and Vec<u8> answers: status 200, the upstream body as is.
RelayBody(body) == [status |-> 200, body |-> <<body>>]

\* What the upstream answers to a call: a response the client returns as
\* Ok, a failure without a response (network), and a failure that came with
\* a body (an error document, or a body the client could not deserialize),
\* which the client returns as Err with a message.
UpstreamReplies ==
    { [ok |-> TRUE, body |-> "upstream body", id |-> "obj-1", error |-> ""],
      [ok |-> FALSE, body |-> "", id |-> "", error |-> "upstream failure"],
      [ok |-> FALSE, body |-> "upstream error body", id |-> "",
       error |-> "upstream failure"] }

\* The request the client of a configuration sends for an operation: the
\* Authorization header it derives from the key and the configured headers.
UpstreamCall(op, config, payload) ==
    [op |-> op,
     authorization |-> Bearer_ \o config.api_key,
     headers |-> config.headers,
     payload |-> payload]

\* A slot with no request.
Idle ==
    [pc |-> "idle", method |-> "", path |-> <<>>, headers |-> <<>>, body |-> EmptyBody,
     handler |-> "", resolution |-> <<>>, calls |-> <<>>, reply |-> <<>>,
     response |-> <<>>, log |-> <<>>]

\* Where a handler stands when it first suspends or returns: finished with a
\* response, or awaiting the answer to the one call it sent.
Finished(resolution, response, log) ==
    [pc |-> "done", resolution |-> resolution, calls |-> <<>>,
     response |-> <<response>>, log |-> log]

\* Mutant: the handler does not wait for the upstream and answers with a
\* gateway timeout of its own.
AwaitingWithTimeout(resolution, call, log) ==
    [pc |-> "done", resolution |-> resolution, calls |-> <<call>>,
     response |-> <<[status |-> 504, body |-> <<"timeout">>]>>, log |-> log]

Awaiting(resolution, call, log) ==
    [pc |-> "awaiting", resolution |-> resolution, calls |-> <<call>>,
     response |-> <<>>, log |-> log]

LogEntry(level, at, args) == [level |-> level, at |-> at, args |-> args]

\* The value a handler interpolates into a log line.
Logged(what, req, reply) ==
    IF IsParam(what) THEN ParamValue(MatchedPattern(req.path)[1], req.path, what)
    ELSE IF what = "request.model" THEN req.body.model
    ELSE IF what = "response.id" THEN reply.id
    ELSE reply.body

LoggedAll(whats, req, reply) == [i \in DOMAIN whats |-> Logged(whats[i], req, reply)]

NoReply == [ok |-> FALSE, body |-> "", id |-> "", error |-> ""]

---------------------------------------------------------------------------
(* The handler bodies.                                                     *)

\* The payload of the upstream call of a handler other than upload_file: the
\* captured path parameters and, for a Json handler, the request.
PayloadOf(h, req) ==
    LET pattern == MatchedPattern(req.path)[1]
        captured == SelectSeq(pattern, IsParam)
    IN  [i \in DOMAIN captured |-> ParamValue(pattern, req.path, captured[i])]
        \o (IF h.body = "json" THEN <<"request">> ELSE <<>>)

\* Mutant: a failed resolution is ignored and the call goes out with an
\* empty key.
ProxyUnchecked(h, req) ==
    LET log == <<LogEntry("info", "request", LoggedAll(h.logs_in, req, NoReply))>>
        client == create_client_from_headers(req.headers, h.use_beta)
        config == IF client.ok THEN client.client[1]
                  ELSE ConfigFor(<<>>, h.use_beta).config
    IN  Awaiting(<<client>>, UpstreamCall(h.op, config, PayloadOf(h, req)), log)

\* Mutant: the handler logs the key of the client it has built.
ProxyLoggingKey(h, req) ==
    LET client == create_client_from_headers(req.headers, h.use_beta)
        log == <<LogEntry("info", "request",
                     LoggedAll(h.logs_in, req, NoReply)
                     \o (IF client.ok THEN <<client.client[1].api_key>> ELSE <<>>))>>
    IN  IF ~client.ok
        THEN Finished(<<client>>, into_response(<<client.error>>), log)
        ELSE Awaiting(<<client>>,
                      UpstreamCall(h.op, client.client[1], PayloadOf(h, req)), log)

\* The body every handler but upload_file and health_check has, up to its
\* await (e.g. completions.rs:46-54): log the request, resolve the
\* credential with the handler's flag, return the error or send the call.
Proxy(h, req) ==
    LET log == <<LogEntry("info", "request", LoggedAll(h.logs_in, req, NoReply))>>
        client == create_client_from_headers(req.headers, h.use_beta)
    IN  IF ~client.ok
        THEN Finished(<<client>>, into_response(<<client.error>>), log)
        ELSE Awaiting(<<client>>,
                      UpstreamCall(h.op, client.client[1], PayloadOf(h, req)), log)

\* Mutant: a file field without a file name keeps the file name of an
\* earlier file field.
RECURSIVE ReadFieldsKeepingName(_, _, _)
ReadFieldsKeepingName(body, i, acc) ==
    IF i > Len(body.parts)
    THEN IF body.truncated
         THEN [acc EXCEPT !.error = <<"Multipart error: ", "stream broken">>]
         ELSE acc
    ELSE
    LET field == body.parts[i]
        name == IF field.file_name = <<>> THEN acc.filename ELSE field.file_name
    IN  IF field.name = "file"
        THEN IF field.readable
             THEN ReadFieldsKeepingName(body, i + 1,
                      [acc EXCEPT !.filename = name,
                                  !.file_bytes = <<field.data>>])
             ELSE [acc EXCEPT !.filename = name,
                              !.error = <<"File read error: ", "stream broken">>]
        ELSE IF field.name = "purpose"
        THEN IF field.readable
             THEN ReadFieldsKeepingName(body, i + 1,
                      [acc EXCEPT !.purpose = <<field.data>>])
             ELSE [acc EXCEPT !.error = <<"Purpose read error: ", "stream broken">>]
        ELSE ReadFieldsKeepingName(body, i + 1, acc)

\* files.rs:49-77: the loop over the multipart fields from field i on; acc
\* holds file_bytes, filename and purpose (Options) and the error, if any,
\* that ends the loop.
RECURSIVE ReadFields(_, _, _)
ReadFields(body, i, acc) ==
    IF i > Len(body.parts)
    THEN IF body.truncated
         THEN [acc EXCEPT !.error = <<"Multipart error: ", "stream broken">>]
         ELSE acc
    ELSE
    LET field == body.parts[i]
    IN  IF field.name = "file"
        THEN IF field.readable
             THEN ReadFields(body, i + 1,
                      [acc EXCEPT !.filename = field.file_name,
                                  !.file_bytes = <<field.data>>])
             ELSE [acc EXCEPT !.filename = field.file_name,
                              !.error = <<"File read error: ", "stream broken">>]
        ELSE IF field.name = "purpose"
        THEN IF field.readable
             THEN ReadFields(body, i + 1, [acc EXCEPT !.purpose = <<field.data>>])
             ELSE [acc EXCEPT !.error = <<"Purpose read error: ", "stream broken">>]
        ELSE ReadFields(body, i + 1, acc)

\* Mutant: only "assistants" is kept, every other text is sent as FineTune.
FilePurposeOfStrict(purpose) ==
    IF purpose = "assistants" THEN "Assistants" ELSE "FineTune"

\* files.rs:85-89: the purpose sent upstream for the text of the field.
FilePurposeOf(purpose) ==
    IF purpose = "assistants" THEN "Assistants"
    ELSE IF purpose = "fine-tune" THEN "FineTune"
    ELSE "Assistants"

\* Mutant: upload_file resolves the credential before it reads the fields.
UploadFileResolvingFirst(h, req) ==
    LET log == <<LogEntry("info", "request", <<>>)>>
        client == create_client_from_headers(req.headers, h.use_beta)
        read == ReadFields(req.body, 1,
                    [file_bytes |-> <<>>, filename |-> <<>>, purpose |-> <<>>,
                     error |-> <<>>])
    IN  IF ~client.ok
        THEN Finished(<<client>>, into_response(<<client.error>>), log)
        ELSE IF read.error # <<>>
        THEN Finished(<<client>>, into_response(read.error), log)
        ELSE IF read.file_bytes = <<>>
        THEN Finished(<<client>>, into_response(<<"File not provided">>), log)
        ELSE IF read.filename = <<>>
        THEN Finished(<<client>>, into_response(<<"Filename not provided">>), log)
        ELSE IF read.purpose = <<>>
        THEN Finished(<<client>>, into_response(<<"Purpose not provided">>), log)
        ELSE Awaiting(<<client>>,
                 UpstreamCall(h.op, client.client[1],
                     <<read.filename[1], read.file_bytes[1],
                       FilePurposeOf(read.purpose[1])>>),
                 log)

\* files.rs:38-105, upload_file up to its upstream await.
UploadFile(h, req) ==
    LET log == <<LogEntry("info", "request", <<>>)>>
        read == ReadFields(req.body, 1,
                    [file_bytes |-> <<>>, filename |-> <<>>, purpose |-> <<>>,
                     error |-> <<>>])
    IN  IF read.error # <<>> THEN Finished(<<>>, into_response(read.error), log)
        ELSE IF read.file_bytes = <<>>
        THEN Finished(<<>>, into_response(<<"File not provided">>), log)
        ELSE IF read.filename = <<>>
        THEN Finished(<<>>, into_response(<<"Filename not provided">>), log)
        ELSE IF read.purpose = <<>>
        THEN Finished(<<>>, into_response(<<"Purpose not provided">>), log)
        ELSE
        LET client == create_client_from_headers(req.headers, h.use_beta)
        IN  IF ~client.ok
            THEN Finished(<<client>>, into_response(<<client.error>>), log)
            ELSE Awaiting(<<client>>,
                     UpstreamCall(h.op, client.client[1],
                         <<read.filename[1], read.file_bytes[1],
                           FilePurposeOf(read.purpose[1])>>),
                     log)

\* The extractors a handler declares run before its body: a Json handler
\* gets a parsed request, upload_file a multipart stream; a body of another
\* kind is rejected and the handler body does not run.
Extracts(h, body) ==
    CASE h.body = "json" -> body.kind = "json"
      [] h.body = "multipart" -> body.kind = "multipart"
      [] OTHER -> TRUE

\* Mutant: the liveness handler answers only a request whose credential
\* resolves.
ServeResolvingAll(req) ==
    LET route == Dispatch(req.method, req.path)
    IN  IF route.handler = ""
        THEN Finished(<<>>, [status |-> route.status, body |-> <<>>], <<>>)
        ELSE
        LET h == HandlerNamed(route.handler)
        IN  IF h.name = "health_check"
            THEN LET client == create_client_from_headers(req.headers, h.use_beta)
                 IN  IF ~client.ok
                     THEN Finished(<<client>>, into_response(<<client.error>>), <<>>)
                     ELSE Finished(<<client>>,
                                   RelayBody("OpenAI API Server is running"), <<>>)
            ELSE IF ~Extracts(h, req.body)
            THEN Finished(<<>>, [status |-> 400, body |-> <<"rejection">>], <<>>)
            ELSE IF h.name = "upload_file" THEN UploadFile(h, req)
            ELSE Proxy(h, req)

\* A request from its arrival to the first point where its handler suspends
\* or returns.
Serve(req) ==
    LET route == Dispatch(req.method, req.path)
    IN  IF route.handler = ""
        THEN Finished(<<>>, [status |-> route.status, body |-> <<>>], <<>>)
        ELSE
        LET h == HandlerNamed(route.handler)
        IN  IF h.name = "health_check"
            THEN Finished(<<>>, RelayBody("OpenAI API Server is running"), <<>>)
            ELSE IF ~Extracts(h, req.body)
            THEN Finished(<<>>, [status |-> 400, body |-> <<"rejection">>], <<>>)
            ELSE IF h.name = "upload_file" THEN UploadFile(h, req)
            ELSE Proxy(h, req)

\* Mutant: a failed call is sent once more before the handler gives up.
ResumeRetrying(slot, reply) ==
    LET h == HandlerNamed(slot.handler)
    IN  IF reply.ok
        THEN [slot EXCEPT
                !.pc = "done", !.reply = <<reply>>,
                !.response = <<RelayBody(reply.body)>>,
                !.log = Append(@, LogEntry("info", "done",
                                    LoggedAll(h.logs_out, slot, reply)))]
        ELSE IF Len(slot.calls) < 2
        THEN [slot EXCEPT !.calls = Append(@, slot.calls[1])]
        ELSE [slot EXCEPT
                !.pc = "done", !.reply = <<reply>>,
                !.response = <<into_response(<<h.err, ": ", reply.error>>)>>,
                !.log = Append(@, LogEntry("error", "error", <<reply.error>>))]

\* Mutant: an upstream failure is answered with the operation's message
\* alone, the upstream's message dropped.
ResumeGeneric(slot, reply) ==
    LET h == HandlerNamed(slot.handler)
    IN  IF reply.ok
        THEN [slot EXCEPT
                !.pc = "done", !.reply = <<reply>>,
                !.response = <<RelayBody(reply.body)>>,
                !.log = Append(@, LogEntry("info", "done",
                                    LoggedAll(h.logs_out, slot, reply)))]
        ELSE [slot EXCEPT
                !.pc = "done", !.reply = <<reply>>,
                !.response = <<into_response(<<h.err>>)>>,
                !.log = Append(@, LogEntry("error", "error", <<reply.error>>))]

\* Mutant: an upstream failure that came with a body is answered with the
\* error message followed by that body.
ResumeMixed(slot, reply) ==
    LET h == HandlerNamed(slot.handler)
    IN  IF reply.ok
        THEN [slot EXCEPT
                !.pc = "done", !.reply = <<reply>>,
                !.response = <<RelayBody(reply.body)>>,
                !.log = Append(@, LogEntry("info", "done",
                                    LoggedAll(h.logs_out, slot, reply)))]
        ELSE [slot EXCEPT
                !.pc = "done", !.reply = <<reply>>,
                !.response = <<into_response(<<h.err, ": ", reply.error, reply.body>>)>>,
                !.log = Append(@, LogEntry("error", "error", <<reply.error>>))]

\* A suspended handler from the answer of the upstream to its return (e.g.
\* completions.rs:55-61): an error is logged and wrapped, a success is logged
\* and relayed.
Resume(slot, reply) ==
    LET h == HandlerNamed(slot.handler)
    IN  IF reply.ok
        THEN [slot EXCEPT
                !.pc = "done", !.reply = <<reply>>,
                !.response = <<RelayBody(reply.body)>>,
                !.log = Append(@, LogEntry("info", "done",
                                    LoggedAll(h.logs_out, slot, reply)))]
        ELSE [slot EXCEPT
                !.pc = "done", !.reply = <<reply>>,
                !.response = <<into_response(<<h.err, ": ", reply.error>>)>>,
                !.log = Append(@, LogEntry("error", "error", <<reply.error>>))]

---------------------------------------------------------------------------
(* The server: requests arrive on free slots, suspended handlers resume    *)
(* when the upstream answers, finished requests leave.                     *)

ReqIds == 1..MaxInFlight

Methods == {"GET", "POST", "DELETE"}

\* The paths requested: every route pattern with "id" for each parameter,
\* and a path no pattern matches.
RequestPaths ==
    {[i \in DOMAIN p |-> IF IsParam(p[i]) THEN "id" ELSE p[i]] : p \in Patterns}
    \cup {<<"v1", "unknown">>}

\* The header sets requests carry: none, "Authorization: Bearer k",
\* "authorization: k", "Authorization: Bearer " and a value that is not text.
RequestHeaders ==
    { <<>>,
      <<[name |-> KeyCapital, value |-> Bearer_ \o <<107>>]>>,
      <<[name |-> KeyLower, value |-> <<107>>]>>,
      <<[name |-> KeyCapital, value |-> Bearer_]>>,
      <<[name |-> KeyCapital, value |-> Bearer_ \o <<233>>]>> }

\* The multipart bodies of uploads.
UploadBodies ==
    { MultipartBody(<<Part("file", <<"a.txt">>, "bytes", TRUE),
                      Part("purpose", <<>>, "assistants", TRUE)>>, FALSE),
      MultipartBody(<<Part("purpose", <<>>, "fine-tune", TRUE),
                      Part("file", <<"a.txt">>, "bytes", TRUE)>>, FALSE),
      MultipartBody(<<Part("purpose", <<>>, "assistants", TRUE)>>, FALSE),
      MultipartBody(<<Part("file", <<"a.txt">>, "bytes", TRUE)>>, FALSE),
      MultipartBody(<<Part("file", <<>>, "bytes", TRUE),
                      Part("purpose", <<>>, "vision", TRUE)>>, FALSE),
      MultipartBody(<<Part("file", <<"a.txt">>, "bytes", TRUE)>>, TRUE) }

\* The bodies sent to a route: what its handler extracts, well-formed or not.
BodiesFor(method, path) ==
    LET route == Dispatch(method, path)
    IN  IF route.handler = "" THEN {EmptyBody}
        ELSE CASE HandlerNamed(route.handler).body = "json" -> {JsonBody, MalformedBody}
               [] HandlerNamed(route.handler).body = "multipart" ->
                      UploadBodies \cup {JsonBody}
               [] OTHER -> {EmptyBody}

\* The header sets sent to a route; a request that reaches no handler is
\* answered by the router, which reads no header.
HeadersFor(method, path) ==
    IF Dispatch(method, path).handler = "" THEN {<<>>} ELSE RequestHeaders

\* main.rs:27, AppState::new(): the state object handed to every handler.
AppState_new == "AppState"

Init ==
    /\ reqs = [r \in ReqIds |-> Idle]
    /\ state = AppState_new
    /\ dropped = 0
    /\ headers = <<>>
    /\ calls = <<>>
    /\ other = NoCall

\* Mutant: a client built for a request still in flight is reused for the
\* next request instead of building one from that request's headers.
HandleSharing(r, req) ==
    /\ reqs[r].pc = "idle"
    /\ LET built == {o \in DOMAIN reqs :
                       reqs[o].resolution # <<>> /\ reqs[o].resolution[1].ok}
           from == IF built = {} THEN req.headers
                   ELSE reqs[CHOOSE o \in built : TRUE].headers
           step == Serve([req EXCEPT !.headers = from])
       IN  reqs' = [reqs EXCEPT ![r] =
              [pc |-> step.pc, method |-> req.method, path |-> req.path,
               headers |-> req.headers, body |-> req.body,
               handler |-> Dispatch(req.method, req.path).handler,
               resolution |-> step.resolution, calls |-> step.calls,
               reply |-> <<>>, response |-> step.response, log |-> step.log]]
    /\ UNCHANGED <<state, dropped, harnessVars>>

\* A request arrives on a free slot and runs until its handler suspends or
\* returns.
Handle(r, req) ==
    /\ reqs[r].pc = "idle"
    /\ LET step == Serve(req)
       IN  reqs' = [reqs EXCEPT ![r] =
              [pc |-> step.pc, method |-> req.method, path |-> req.path,
               headers |-> req.headers, body |-> req.body,
               handler |-> Dispatch(req.method, req.path).handler,
               resolution |-> step.resolution, calls |-> step.calls,
               reply |-> <<>>, response |-> step.response, log |-> step.log]]
    /\ UNCHANGED <<state, dropped, harnessVars>>

\* The upstream answers the call of a suspended handler, which returns.
UpstreamReturns(r, reply) ==
    /\ reqs[r].pc = "awaiting"
    /\ reqs' = [reqs EXCEPT ![r] = Resume(reqs[r], reply)]
    /\ UNCHANGED <<state, dropped, harnessVars>>

\* Mutant: the client configuration of the finished request is kept.
RespondKeeping(r) ==
    /\ reqs[r].pc = "done"
    /\ reqs' = [reqs EXCEPT ![r] = [Idle EXCEPT !.resolution = reqs[r].resolution]]
    /\ UNCHANGED <<state, harnessVars>>

\* The response is written out and everything the request owned is dropped.
Respond(r) ==
    /\ reqs[r].pc = "done"
    /\ reqs' = [reqs EXCEPT ![r] = Idle]
    /\ UNCHANGED <<state, harnessVars>>

Next ==
    \/ \E r \in ReqIds :
          /\ reqs[r].pc = "idle"
          /\ \E method \in Methods, path \in RequestPaths :
                \E sent \in HeadersFor(method, path), body \in BodiesFor(method, path) :
                    Handle(r, [method |-> method, path |-> path,
                               headers |-> HeaderMapOf(sent), body |-> body])
    \/ \E r \in ReqIds, reply \in UpstreamReplies : UpstreamReturns(r, reply)
    \/ \E r \in ReqIds : Respond(r) /\ UNCHANGED dropped

Spec == Init /\ [][Next]_vars

---------------------------------------------------------------------------
(* Uploads: POST /v1/files with every multipart body of up to MaxParts     *)
(* fields, served one at a time.                                           *)

\* The most fields a multipart body carries.
MaxParts == 3

\* The fields a body is made of: files with and without a file name and one
\* whose content cannot be read to the end, purposes of several texts and
\* one whose content is not text, and a field of another name.
UploadParts ==
    { Part("file", <<"a.txt">>, "bytes", TRUE),
      Part("file", <<>>, "other bytes", TRUE),
      Part("file", <<"a.txt">>, "bytes", FALSE),
      Part("purpose", <<>>, "assistants", TRUE),
      Part("purpose", <<>>, "fine-tune", TRUE),
      Part("purpose", <<>>, "Fine-Tune", TRUE),
      Part("purpose", <<>>, "vision", TRUE),
      Part("purpose", <<>>, "", FALSE),
      Part("note", <<>>, "text", TRUE) }

MultipartBodies ==
    { MultipartBody(parts, truncated) :
        parts \in UNION {[1..n -> UploadParts] : n \in 0..MaxParts},
        truncated \in BOOLEAN }

InitUpload ==
    /\ reqs = <<Idle>>
    /\ state = AppState_new
    /\ dropped = 0
    /\ headers = <<>>
    /\ calls = <<>>
    /\ other = NoCall

NextUpload ==
    \/ /\ reqs[1].pc = "idle"
       /\ \E sent \in RequestHeaders, body \in MultipartBodies :
             Handle(1, [method |-> "POST", path |-> <<"v1", "files">>,
                        headers |-> HeaderMapOf(sent), body |-> body])
    \/ \E reply \in UpstreamReplies : UpstreamReturns(1, reply)
    \/ Respond(1) /\ UNCHANGED dropped

SpecUpload == InitUpload /\ [][NextUpload]_vars

---------------------------------------------------------------------------
(* Concurrent requests: up to MaxConcurrent requests in flight, of a beta  *)
(* handler, two handlers without the flag and the liveness handler, with   *)
(* two different credentials or none; the configurations that go with      *)
(* finished requests are counted.                                          *)

\* Most requests in flight in the concurrent specification.
MaxConcurrent == 2
\* The count of dropped configurations stops here.
MaxDropped == 1

ConcurrentHeaders ==
    { <<>>,
      <<[name |-> KeyCapital, value |-> Bearer_ \o <<107>>]>>,     \* "Bearer k"
      <<[name |-> KeyCapital, value |-> Bearer_ \o <<106>>]>> }    \* "Bearer j"

ConcurrentRequests ==
    { [method |-> route[1], path |-> route[2], headers |-> HeaderMapOf(sent),
       body |-> route[3]] :
        route \in { <<"POST", <<"v1", "assistants">>, JsonBody>>,
                    <<"POST", <<"v1", "chat", "completions">>, JsonBody>>,
                    <<"GET", <<"v1", "models">>, EmptyBody>>,
                    <<"GET", <<"health">>, EmptyBody>> },
        sent \in ConcurrentHeaders }

InitConcurrent ==
    /\ reqs = [r \in 1..MaxConcurrent |-> Idle]
    /\ state = AppState_new
    /\ dropped = 0
    /\ headers = <<>>
    /\ calls = <<>>
    /\ other = NoCall

\* The history of Respond(r): a request that built a client configuration
\* takes it along when it leaves.
Drop(r) ==
    dropped' = IF /\ reqs[r].resolution # <<>>
                  /\ reqs[r].resolution[1].ok
                  /\ dropped < MaxDropped
               THEN dropped + 1 ELSE dropped

NextConcurrent ==
    \/ \E r \in 1..MaxConcurrent, req \in ConcurrentRequests : Handle(r, req)
    \/ \E r \in 1..MaxConcurrent, reply \in UpstreamReplies : UpstreamReturns(r, reply)
    \/ \E r \in 1..MaxConcurrent : Respond(r) /\ Drop(r)

SpecConcurrent == InitConcurrent /\ [][NextConcurrent]_vars

---------------------------------------------------------------------------
(* Waiting for the upstream: requests of create_run and create_image, up   *)
(* to MaxConcurrent in flight, where the upstream answers every call and a *)
(* woken handler is run.                                                   *)

LiveRequests ==
    { [method |-> "POST", path |-> path, headers |-> HeaderMapOf(sent),
       body |-> JsonBody] :
        path \in { <<"v1", "threads", "id", "runs">>,
                   <<"v1", "images", "generations">> },
        sent \in ConcurrentHeaders }

NextLive ==
    \/ \E r \in 1..MaxConcurrent, req \in LiveRequests : Handle(r, req)
    \/ \E r \in 1..MaxConcurrent, reply \in UpstreamReplies : UpstreamReturns(r, reply)
    \/ \E r \in 1..MaxConcurrent : Respond(r) /\ UNCHANGED dropped

\* Fairness: the call of each suspended handler is eventually answered (the
\* premise of the liveness claim) and the runtime then polls the handler.
SpecLive ==
    /\ InitConcurrent
    /\ [][NextLive]_vars
    /\ \A r \in 1..MaxConcurrent :
          WF_vars(\E reply \in UpstreamReplies : UpstreamReturns(r, reply))

---------------------------------------------------------------------------
(* Resolver harness: the resolver applied to header sets drawn from a      *)
(* bounded family, several times each and interleaved with calls on other  *)
(* inputs.                                                                 *)

\* Spellings of the field name a client may send.
SentNames ==
    { KeyLower, KeyCapital,
      <<65, 85, 84, 72, 79, 82, 73, 90, 65, 84, 73, 79, 78>> }    \* AUTHORIZATION

\* Bytes of the credential suffixes: "k", space, and 0xE9 (legal in a header
\* value, not text).
Alphabet == {107, 32, 233}

Suffixes == UNION {[1..n -> Alphabet] : n \in 0..MaxSuffix}

\* Values: up to two scheme-like prefixes followed by a suffix, and the
\* scheme word alone.
AuthValues ==
    { p1 \o p2 \o sfx :
        p1 \in {<<>>, Bearer_, bearer_, BEARER_},
        p2 \in {<<>>, Bearer_, bearer_},
        sfx \in Suffixes }
    \cup {BearerNoSpace}

\* A field that is not Authorization ("Accept: k").
AcceptField == [name |-> <<65, 99, 99, 101, 112, 116>>, value |-> <<107>>]

\* A second Authorization field ("authorization: Bearer kk").
SecondAuthField == [name |-> KeyLower, value |-> Bearer_ \o <<107, 107>>]

AuthFields == [name : SentNames, value : AuthValues]

HeaderSets ==
    {<<>>, <<AcceptField>>}
    \cup {<<f>> : f \in AuthFields}
    \cup {<<AcceptField, f>> : f \in AuthFields}
    \cup {<<f, SecondAuthField>> : f \in AuthFields}

\* The other input whose calls are interleaved ("Authorization: Bearer pp",
\* beta).
OtherInputs ==
    { [headers |-> <<[name |-> KeyCapital, value |-> Bearer_ \o <<112, 112>>]>>,
       use_beta |-> TRUE] }

InitResolver ==
    /\ headers \in HeaderSets
    /\ calls = <<>>
    /\ other = NoCall
    /\ reqs = [r \in ReqIds |-> Idle]
    /\ state = AppState_new
    /\ dropped = 0

\* One call create_client_from_headers(&headers, beta) on the header set
\* under study.
Resolve(beta) ==
    /\ Len(calls) < MaxCalls
    /\ calls' = Append(calls,
          [use_beta |-> beta,
           result |-> create_client_from_headers(HeaderMapOf(headers), beta)])
    /\ UNCHANGED <<headers, other, serverVars>>

\* One call on another input.
ResolveOther(in) ==
    /\ other' = create_client_from_headers(HeaderMapOf(in.headers), in.use_beta)
    /\ other' # other
    /\ UNCHANGED <<headers, calls, serverVars>>

NextResolver ==
    \/ \E beta \in BOOLEAN : Resolve(beta)
    \/ \E in \in OtherInputs : ResolveOther(in)

SpecResolver == InitResolver /\ [][NextResolver]_vars

---------------------------------------------------------------------------
(* Claims about the resolver, checked under SpecResolver.  The vocabulary  *)
(* below reads the header set as the client sent it and does not use the   *)
(* resolver's own operators.                                               *)

\* The positions of the fields named Authorization, in any letter case.
SentAuthPositions == {i \in DOMAIN headers : ToLower(headers[i].name) = KeyLower}

HasAuth == SentAuthPositions # {}

\* The Authorization value of the request: that of its first such field.
SentValue ==
    headers[CHOOSE i \in SentAuthPositions : \A j \in SentAuthPositions : i <= j].value

IsText(v) == \A i \in DOMAIN v : v[i] \in (32..126) \cup {9}

\* The value is "Bearer " or "bearer " followed by something (possibly nothing).
HasScheme(v) == Len(v) >= 7 /\ SubSeq(v, 1, 7) \in {Bearer_, bearer_}

\* The value with its first 7 bytes removed.
AfterScheme(v) == SubSeq(v, 8, Len(v))

PostStrip(v) == IF HasScheme(v) THEN AfterScheme(v) ELSE v

Succeeded(r) == r.ok /\ Len(r.client) = 1

Credential(r) == r.client[1].api_key

FailedWith(r, msg) == ~r.ok /\ r.error = msg /\ r.client = <<>>

HasBetaHeader(r) ==
    \E k \in DOMAIN r.client[1].headers :
        /\ ToLower(r.client[1].headers[k].name) = ToLower(OpenAIBeta)
        /\ r.client[1].headers[k].value = AssistantsV2

\* C1 as claimed: every value "Bearer X" or "bearer X" with X non-empty
\* resolves to the credential X, for both values of the beta flag.
C1_AsClaimed ==
    \A i \in DOMAIN calls :
        (HasAuth /\ HasScheme(SentValue) /\ Len(SentValue) > 7)
            => /\ Succeeded(calls[i].result)
               /\ Credential(calls[i].result) = AfterScheme(SentValue)

\* C1 amended: every value "Bearer X" or "bearer X" with X non-empty that is
\* representable as text (every byte visible ASCII, space or tab) resolves to
\* the credential X, the 7-byte prefix removed and nothing else changed, for
\* both values of the beta flag.
C1_BearerYieldsSuffix ==
    \A i \in DOMAIN calls :
        (HasAuth /\ HasScheme(SentValue) /\ Len(SentValue) > 7 /\ IsText(SentValue))
            => /\ Succeeded(calls[i].result)
               /\ Credential(calls[i].result) = AfterScheme(SentValue)

C1_Witness ==
    /\ HasAuth /\ Len(SentValue) > 7 /\ SubSeq(SentValue, 1, 7) = bearer_
    /\ IsText(SentValue)
    /\ \E i, j \in DOMAIN calls :
        /\ calls[i].use_beta /\ ~calls[j].use_beta
        /\ Succeeded(calls[i].result) /\ Succeeded(calls[j].result)
        /\ Credential(calls[i].result) = AfterScheme(SentValue)
        /\ Credential(calls[j].result) = AfterScheme(SentValue)

\* C2: the value "Bearer " alone (prefix, nothing after it) fails with the
\* empty-credential error and no client configuration is built.
C2_BarePrefixFails ==
    \A i \in DOMAIN calls :
        (HasAuth /\ SentValue = Bearer_) => FailedWith(calls[i].result, MsgEmptyKey)

C2_Witness ==
    /\ HasAuth /\ SentValue = Bearer_
    /\ \E i \in DOMAIN calls : FailedWith(calls[i].result, MsgEmptyKey)

\* C3 as claimed: every non-empty value that starts with neither "Bearer "
\* nor "bearer " resolves to the whole value as the credential.
C3_AsClaimed ==
    \A i \in DOMAIN calls :
        (HasAuth /\ Len(SentValue) > 0 /\ ~HasScheme(SentValue))
            => /\ Succeeded(calls[i].result)
               /\ Credential(calls[i].result) = SentValue

\* C3 amended: every non-empty value representable as text that starts with
\* neither "Bearer " nor "bearer " (among them "BEARER X" and a raw key)
\* resolves to the whole value, unchanged, as the credential.
C3_UnprefixedPassesThrough ==
    \A i \in DOMAIN calls :
        (HasAuth /\ Len(SentValue) > 0 /\ ~HasScheme(SentValue) /\ IsText(SentValue))
            => /\ Succeeded(calls[i].result)
               /\ Credential(calls[i].result) = SentValue

C3_Witness ==
    /\ HasAuth /\ Len(SentValue) > 7 /\ SubSeq(SentValue, 1, 7) = BEARER_
    /\ IsText(SentValue)
    /\ \E i \in DOMAIN calls :
        Succeeded(calls[i].result) /\ Credential(calls[i].result) = SentValue

\* C4: the emptiness check reads the value left after prefix stripping and
\* trims nothing: the empty-credential error is returned exactly when that
\* value has length 0, so a value of blanks only is accepted as credential.
C4_EmptyIffPostStripEmpty ==
    \A i \in DOMAIN calls :
        /\ (HasAuth /\ IsText(SentValue))
            => /\ (~calls[i].result.ok /\ calls[i].result.error = MsgEmptyKey)
                    <=> (Len(PostStrip(SentValue)) = 0)
               /\ Len(PostStrip(SentValue)) > 0
                    => /\ Succeeded(calls[i].result)
                       /\ Credential(calls[i].result) = PostStrip(SentValue)
        /\ ~(HasAuth /\ IsText(SentValue)) => calls[i].result.error # MsgEmptyKey

\* "Bearer  " (two spaces) is accepted with the credential " ".
C4_Witness ==
    /\ HasAuth /\ SentValue = Bearer_ \o <<32>>
    /\ \E i \in DOMAIN calls :
        Succeeded(calls[i].result) /\ Credential(calls[i].result) = <<32>>

\* C5: the three failures are told apart by message and are exhaustive: no
\* Authorization field gives the missing-header error, a value that is not
\* text the invalid-format error, an empty post-strip credential the
\* empty-credential error; the messages differ pairwise and every failure is
\* exactly one of the three.
C5_ThreeDistinctFailures ==
    /\ Cardinality({MsgMissing, MsgInvalidFormat, MsgEmptyKey}) = 3
    /\ \A i \in DOMAIN calls :
        LET r == calls[i].result
            missing == ~HasAuth
            notText == HasAuth /\ ~IsText(SentValue)
            empty == HasAuth /\ IsText(SentValue) /\ Len(PostStrip(SentValue)) = 0
        IN  /\ missing => FailedWith(r, MsgMissing)
            /\ notText => FailedWith(r, MsgInvalidFormat)
            /\ empty => FailedWith(r, MsgEmptyKey)
            /\ ~r.ok =>
                /\ r.error \in {MsgMissing, MsgInvalidFormat, MsgEmptyKey}
                /\ (r.error = MsgMissing) <=> missing
                /\ (r.error = MsgInvalidFormat) <=> notText
                /\ (r.error = MsgEmptyKey) <=> empty

\* A value that is not text has been refused with the invalid-format error.
C5_Witness ==
    /\ HasAuth /\ ~IsText(SentValue)
    /\ \E i \in DOMAIN calls : FailedWith(calls[i].result, MsgInvalidFormat)

\* C6: a configuration produced by the resolver holds the header OpenAI-Beta
\* with value assistants=v2 exactly when use_beta is true, and its credential
\* is the same for both values of use_beta.
C6_BetaHeaderIffFlag ==
    /\ \A i \in DOMAIN calls :
        Succeeded(calls[i].result)
            => /\ HasBetaHeader(calls[i].result) <=> calls[i].use_beta
               /\ ~calls[i].use_beta => calls[i].result.client[1].headers = <<>>
    /\ \A i, j \in DOMAIN calls :
        /\ calls[i].result.ok = calls[j].result.ok
        /\ Succeeded(calls[i].result)
            => Credential(calls[i].result) = Credential(calls[j].result)

C6_Witness ==
    \E i, j \in DOMAIN calls :
        /\ calls[i].use_beta /\ ~calls[j].use_beta
        /\ Succeeded(calls[i].result) /\ Succeeded(calls[j].result)
        /\ HasBetaHeader(calls[i].result) /\ ~HasBetaHeader(calls[j].result)
        /\ Credential(calls[i].result) = Credential(calls[j].result)

\* The upstream call carries the header OpenAI-Beta: assistants=v2.
CarriesBeta(call) ==
    \E k \in DOMAIN call.headers :
        /\ ToLower(call.headers[k].name) = ToLower(OpenAIBeta)
        /\ call.headers[k].value = AssistantsV2

BetaFamilies == {"assistants", "threads", "messages", "runs"}

\* C7: over the whole route table, an upstream call carries OpenAI-Beta:
\* assistants=v2 exactly when its handler is of the assistants, threads,
\* messages or runs family; no call of a completions, embeddings, models,
\* images, files or responses handler carries it.
C7_BetaOnlyForAssistantsFamilies ==
    \A r \in ReqIds : \A k \in DOMAIN reqs[r].calls :
        CarriesBeta(reqs[r].calls[k])
            <=> HandlerNamed(reqs[r].handler).family \in BetaFamilies

\* POST /v1/threads/runs has sent its call, with the header.
C7_Witness ==
    \E r \in ReqIds :
        /\ reqs[r].handler = "create_thread_and_run"
        /\ Len(reqs[r].calls) = 1
        /\ CarriesBeta(reqs[r].calls[1])

Respelled(fields, name) ==
    [i \in DOMAIN fields |->
        IF ToLower(fields[i].name) = KeyLower
        THEN [name |-> name, value |-> fields[i].value]
        ELSE fields[i]]

C9_NameCaseInsensitive ==
    \A i \in DOMAIN calls : \A name \in SentNames :
        calls[i].result =
            create_client_from_headers(HeaderMapOf(Respelled(headers, name)),
                                       calls[i].use_beta)

\* A field sent as neither "authorization" nor "Authorization" was found.
C9_Witness ==
    /\ HasAuth
    /\ \A p \in SentAuthPositions : headers[p].name \notin {KeyLower, KeyCapital}
    /\ \E i \in DOMAIN calls : Succeeded(calls[i].result)

\* C10: in every handler that resolves a credential, a failed resolution
\* (missing header, value that is not text, empty credential) ends the
\* request with that error, and no upstream call is made for the request.
C10_FailedResolutionNoUpstream ==
    \A r \in ReqIds :
        (reqs[r].resolution # <<>> /\ ~reqs[r].resolution[1].ok)
            => /\ reqs[r].pc = "done"
               /\ reqs[r].calls = <<>>
               /\ reqs[r].reply = <<>>
               /\ reqs[r].resolution[1].error \in {MsgMissing, MsgInvalidFormat, MsgEmptyKey}
               /\ reqs[r].response =
                    <<[status |-> 500,
                       body |-> <<"Oshibka: ", reqs[r].resolution[1].error>>]>>

\* POST /v1/chat/completions without an Authorization header has ended with
\* the missing-header error and no call.
C10_Witness ==
    \E r \in ReqIds :
        /\ reqs[r].handler = "chat_completions"
        /\ reqs[r].headers = <<>>
        /\ reqs[r].resolution # <<>> /\ ~reqs[r].resolution[1].ok
        /\ reqs[r].pc = "done" /\ reqs[r].calls = <<>>
        /\ reqs[r].response = <<[status |-> 500, body |-> <<"Oshibka: ", MsgMissing>>]>>

---------------------------------------------------------------------------
(* Claims about the handler template: one call, error surfacing, outcomes. *)

\* The bodies the upstream may send.
UpstreamBodies == {rep.body : rep \in UpstreamReplies} \ {""}

\* The request of slot q got as far as the body of a dispatch handler's
\* route (the liveness handler is not one).
Routed(q) == q.pc # "idle" /\ q.handler \notin {"", "health_check"}

\* C11: a request that reaches a dispatch handler never has more than one
\* upstream call; it has exactly one when its credential resolution
\* succeeded (none when it ended before that), the handler is suspended
\* exactly while that call is unanswered, and once the call is answered,
\* with success or failure, the request is done with a response and the call
\* has not been sent again.
C11_OneCallNoRetry ==
    \A r \in ReqIds :
        LET q == reqs[r]
        IN  /\ Len(q.calls) <= 1
            /\ Len(q.calls) = 1 <=> (q.resolution # <<>> /\ q.resolution[1].ok)
            /\ q.pc = "awaiting" <=> (Len(q.calls) = 1 /\ q.reply = <<>>)
            /\ q.pc = "awaiting" => q.response = <<>>
            /\ q.reply # <<>> =>
                  /\ q.pc = "done"
                  /\ Len(q.reply) = 1
                  /\ Len(q.calls) = 1
                  /\ Len(q.response) = 1

\* The call of POST /v1/embeddings failed and the request is done after that
\* one call.
C11_Witness ==
    \E r \in ReqIds :
        /\ reqs[r].handler = "embeddings"
        /\ reqs[r].pc = "done"
        /\ reqs[r].reply # <<>> /\ ~reqs[r].reply[1].ok
        /\ Len(reqs[r].calls) = 1

\* C12: when the upstream call of a request fails, the request ends with an
\* error response whose message is the handler's operation prefix followed
\* by the upstream error's message, and the response holds no body the
\* upstream sent.
C12_UpstreamFailureSurfaced ==
    \A r \in ReqIds :
        LET q == reqs[r]
        IN  (q.reply # <<>> /\ ~q.reply[1].ok) =>
               /\ q.pc = "done"
               /\ Len(q.response) = 1
               /\ q.response[1].status = 500
               /\ q.response[1].body =
                     <<"Oshibka: ", HandlerNamed(q.handler).err, ": ", q.reply[1].error>>
               /\ HandlerNamed(q.handler).err # ""
               /\ \A i \in DOMAIN q.response[1].body :
                     q.response[1].body[i] \notin UpstreamBodies

\* The call of POST /v1/chat/completions failed with an error document and
\* the response carries the upstream's message after the operation prefix.
C12_Witness ==
    \E r \in ReqIds :
        /\ reqs[r].handler = "chat_completions"
        /\ reqs[r].reply # <<>> /\ ~reqs[r].reply[1].ok
        /\ reqs[r].reply[1].body = "upstream error body"
        /\ reqs[r].response =
              <<[status |-> 500,
                 body |-> <<"Oshibka: ", "Chat completion error", ": ",
                            "upstream failure">>]>>

\* Full success: the upstream answered with a response and the body returned
\* is that response's body, nothing before or after it.
FullSuccess(q) ==
    /\ q.reply # <<>> /\ q.reply[1].ok
    /\ q.response = <<[status |-> 200, body |-> <<q.reply[1].body>>]>>

\* Full failure: no upstream response was obtained, the status is an error
\* status and the body is one message holding no part of an upstream body.
FullFailure(q) ==
    /\ q.reply = <<>> \/ ~q.reply[1].ok
    /\ Len(q.response) = 1
    /\ q.response[1].status \in 400..599
    /\ Len(q.response[1].body) >= 1
    /\ \A i \in DOMAIN q.response[1].body : q.response[1].body[i] \notin UpstreamBodies

HandlerErrors(q) ==
    { <<MsgMissing>>, <<MsgInvalidFormat>>, <<MsgEmptyKey>> }
    \cup { <<"Multipart error: ", "stream broken">>,
           <<"File read error: ", "stream broken">>,
           <<"Purpose read error: ", "stream broken">>,
           <<"File not provided">>, <<"Filename not provided">>,
           <<"Purpose not provided">> }
    \cup { <<HandlerNamed(q.handler).err, ": ", rep.error>> : rep \in UpstreamReplies }

\* C14 as stated: every error answered to a request routed to a handler has
\* status 500 and a body that starts with the fixed prefix.
C14_AsClaimed ==
    \A r \in ReqIds :
        (Routed(reqs[r]) /\ reqs[r].pc = "done" /\ reqs[r].response[1].status # 200)
            => /\ reqs[r].response[1].status = 500
               /\ reqs[r].response[1].body[1] = "Oshibka: "

\* C14: every error a handler returns (credential, multipart field or
\* upstream error) is answered with status 500 and the fixed prefix followed
\* by the error message; a request whose body the handler's extractor rejects
\* is answered before the handler runs with a 4xx status and no prefix.
C14_HandlerErrorsAre500 ==
    \A r \in ReqIds :
        LET q == reqs[r]
        IN  (Routed(q) /\ q.pc = "done" /\ q.response[1].status # 200) =>
               IF Extracts(HandlerNamed(q.handler), q.body)
               THEN /\ q.response[1].status = 500
                    /\ q.response[1].body[1] = "Oshibka: "
                    /\ Tail(q.response[1].body) \in HandlerErrors(q)
               ELSE /\ q.response[1].status \in 400..499
                    /\ q.response[1].body[1] # "Oshibka: "
                    /\ q.resolution = <<>> /\ q.calls = <<>>

\* POST /v1/files without a file field has been answered 500 with the
\* prefixed "File not provided".
C14_Witness ==
    \E r \in ReqIds :
        /\ reqs[r].handler = "upload_file"
        /\ reqs[r].pc = "done"
        /\ reqs[r].response =
              <<[status |-> 500, body |-> <<"Oshibka: ", "File not provided">>]>>

---------------------------------------------------------------------------
(* Claims about the liveness routes and the upload handler.                *)

\* C15: GET / and GET /health are answered with status 200 and the static
\* liveness string whatever headers the request carries, without any
\* credential resolution and without any upstream call.
C15_LivenessNeedsNoCredential ==
    \A r \in ReqIds :
        LET q == reqs[r]
        IN  (q.pc # "idle" /\ q.method = "GET" /\ q.path \in {<<>>, <<"health">>})
               => /\ q.pc = "done"
                  /\ q.handler = "health_check"
                  /\ q.response =
                        <<[status |-> 200, body |-> <<"OpenAI API Server is running">>]>>
                  /\ q.resolution = <<>>
                  /\ q.calls = <<>>
                  /\ q.reply = <<>>

\* GET /health with an Authorization value that is not text has been
\* answered with the liveness string.
C15_Witness ==
    \E r \in ReqIds :
        /\ reqs[r].method = "GET" /\ reqs[r].path = <<"health">>
        /\ reqs[r].headers # <<>>
        /\ ~create_client_from_headers(reqs[r].headers, FALSE).ok
        /\ reqs[r].pc = "done"
        /\ reqs[r].response[1].status = 200

\* The positions of the fields of a name in a multipart body.
FieldsNamed(body, name) == {i \in DOMAIN body.parts : body.parts[i].name = name}

\* The last field of a name (there is one).
LastField(body, name) ==
    body.parts[CHOOSE i \in FieldsNamed(body, name) :
                   \A j \in FieldsNamed(body, name) : j <= i]

\* Slot q holds an upload whose body reached the handler as multipart.
IsUpload(q) == q.pc # "idle" /\ q.handler = "upload_file" /\ q.body.kind = "multipart"

\* The stream ends properly and every field can be read to its end (a
\* purpose field as text).
WellRead(body) == ~body.truncated /\ \A i \in DOMAIN body.parts : body.parts[i].readable

\* C16 as stated: an upload without a field named "file" fails with "File
\* not provided" and no upstream call, whatever else it carries.
C16_AsClaimed ==
    \A r \in DOMAIN reqs :
        (IsUpload(reqs[r]) /\ FieldsNamed(reqs[r].body, "file") = {})
            => /\ reqs[r].pc = "done"
               /\ reqs[r].calls = <<>>
               /\ reqs[r].response =
                     <<[status |-> 500, body |-> <<"Oshibka: ", "File not provided">>]>>

\* C16: an upload without a field named "file" fails before the credential
\* is resolved and before any upstream call, whatever its headers; the error
\* is "File not provided" when the multipart stream ends properly and every
\* purpose field is readable text, and otherwise the error of the first
\* field or stream that could not be read.
C16_NoFileFailsBeforeUpstream ==
    \A r \in DOMAIN reqs :
        LET q == reqs[r]
        IN  (IsUpload(q) /\ FieldsNamed(q.body, "file") = {}) =>
               /\ q.pc = "done"
               /\ q.calls = <<>> /\ q.reply = <<>> /\ q.resolution = <<>>
               /\ Len(q.response) = 1
               /\ q.response[1].status = 500
               /\ q.response[1].body =
                     IF WellRead(q.body) THEN <<"Oshibka: ", "File not provided">>
                     ELSE IF \E i \in DOMAIN q.body.parts : ~q.body.parts[i].readable
                     THEN <<"Oshibka: ", "Purpose read error: ", "stream broken">>
                     ELSE <<"Oshibka: ", "Multipart error: ", "stream broken">>

\* An upload with a purpose and a note but no file, sent without any
\* Authorization header, has failed with "File not provided".
C16_Witness ==
    \E r \in DOMAIN reqs :
        /\ IsUpload(reqs[r])
        /\ FieldsNamed(reqs[r].body, "file") = {}
        /\ FieldsNamed(reqs[r].body, "purpose") # {}
        /\ FieldsNamed(reqs[r].body, "note") # {}
        /\ reqs[r].headers = <<>>
        /\ reqs[r].response =
              <<[status |-> 500, body |-> <<"Oshibka: ", "File not provided">>]>>

\* The upload of slot q has everything the handler asks for: a readable
\* body, a file whose last field has a file name, and a credential that
\* resolves.
Forwardable(q) ==
    /\ IsUpload(q)
    /\ WellRead(q.body)
    /\ FieldsNamed(q.body, "file") # {}
    /\ LastField(q.body, "file").file_name # <<>>
    /\ create_client_from_headers(q.headers, FALSE).ok

\* C17: an upload that has a purpose field and everything else the handler
\* asks for is sent upstream, whatever the text of the purpose; the purpose
\* sent is FineTune when the text is exactly "fine-tune" and Assistants for
\* every other text.
C17_PurposeMapping ==
    \A r \in DOMAIN reqs :
        LET q == reqs[r]
        IN  /\ (Forwardable(q) /\ FieldsNamed(q.body, "purpose") # {})
                  => /\ Len(q.calls) = 1
                     /\ q.calls[1].payload[3] =
                           IF LastField(q.body, "purpose").data = "fine-tune"
                           THEN "FineTune" ELSE "Assistants"
            /\ (IsUpload(q) /\ q.calls # <<>>)
                  => /\ Forwardable(q)
                     /\ FieldsNamed(q.body, "purpose") # {}
                     /\ q.calls[1].payload[3] \in {"FineTune", "Assistants"}

\* An upload with purpose "vision" has been sent upstream with purpose
\* Assistants.
C17_Witness ==
    \E r \in DOMAIN reqs :
        /\ IsUpload(reqs[r])
        /\ FieldsNamed(reqs[r].body, "purpose") # {}
        /\ LastField(reqs[r].body, "purpose").data = "vision"
        /\ Len(reqs[r].calls) = 1
        /\ reqs[r].calls[1].payload[3] = "Assistants"

\* C18: an upload that has a file with a file name and a credential that
\* resolves, and no purpose field, is sent upstream with purpose Assistants.
C18_DefaultPurposeAssistants ==
    \A r \in DOMAIN reqs :
        (Forwardable(reqs[r]) /\ FieldsNamed(reqs[r].body, "purpose") = {})
            => /\ Len(reqs[r].calls) = 1
               /\ reqs[r].calls[1].payload[3] = "Assistants"

---------------------------------------------------------------------------
(* Claims about concurrent requests and what the process keeps.            *)

\* The request slot q holds, as it arrived.
RequestOf(q) ==
    [method |-> q.method, path |-> q.path, headers |-> q.headers, body |-> q.body]

\* What slot q holds when its request is the only one the server ever
\* handles: the handler's run on that request and, once the upstream has
\* answered, its return on that answer.
ServedAlone(q) ==
    LET step == Serve(RequestOf(q))
        first == [pc |-> step.pc, method |-> q.method, path |-> q.path,
                  headers |-> q.headers, body |-> q.body,
                  handler |-> Dispatch(q.method, q.path).handler,
                  resolution |-> step.resolution, calls |-> step.calls,
                  reply |-> <<>>, response |-> step.response, log |-> step.log]
    IN  IF q.reply = <<>> THEN first ELSE Resume(first, q.reply[1])

\* C19: whatever other requests are in flight or have been served, the
\* upstream call of a request carries the credential of that request's own
\* Authorization header and the beta header exactly when its own handler
\* sets the flag, everything the request has come to (resolution, call,
\* response, log) is what it comes to when served alone, and the process-wide
\* state is untouched.
C19_RequestsIndependent ==
    /\ state = AppState_new
    /\ \A r \in DOMAIN reqs :
          LET q == reqs[r]
          IN  q.pc # "idle" =>
                 /\ q = ServedAlone(q)
                 /\ q.calls # <<>> =>
                       /\ HeaderMapGet(q.headers, KeyLower) # <<>>
                       /\ q.calls[1].authorization =
                             Bearer_ \o PostStrip(HeaderMapGet(q.headers, KeyLower)[1])
                       /\ CarriesBeta(q.calls[1]) <=> HandlerNamed(q.handler).use_beta

\* Two requests are suspended at the same time, one of create_assistant and
\* one of another handler, with different credentials: each call carries its
\* own credential and only the first the beta header.
C19_Witness ==
    \E r1, r2 \in DOMAIN reqs :
        /\ r1 # r2
        /\ reqs[r1].pc = "awaiting" /\ reqs[r2].pc = "awaiting"
        /\ reqs[r1].handler = "create_assistant"
        /\ reqs[r2].handler # "create_assistant"
        /\ reqs[r1].calls[1].authorization # reqs[r2].calls[1].authorization
        /\ CarriesBeta(reqs[r1].calls[1])
        /\ ~CarriesBeta(reqs[r2].calls[1])
        /\ dropped >= 1

\* C20: the process-wide state never changes, a slot whose request has been
\* answered holds nothing of it (no credential, no configuration), and the
\* configuration a request in flight uses is the one built from its own
\* headers and handler, which its call is made with.
C20_NothingKept ==
    /\ state = AppState_new
    /\ \A r \in DOMAIN reqs :
          LET q == reqs[r]
          IN  /\ q.pc = "idle" => q = Idle
              /\ q.resolution # <<>> =>
                    /\ q.pc # "idle"
                    /\ q.resolution =
                          <<create_client_from_headers(q.headers,
                                HandlerNamed(q.handler).use_beta)>>
              /\ q.calls # <<>> =>
                    /\ q.resolution # <<>> /\ q.resolution[1].ok
                    /\ q.calls[1].authorization =
                          Bearer_ \o q.resolution[1].client[1].api_key
                    /\ q.calls[1].headers = q.resolution[1].client[1].headers

\* A request that built a configuration has been answered and no request is
\* in flight: every slot is empty and the state is the initial one.
C20_Witness ==
    /\ dropped >= 1
    /\ \A r \in DOMAIN reqs : reqs[r] = Idle
    /\ state = AppState_new

---------------------------------------------------------------------------
(* Claims about the log, the order of the handler's steps, the route table *)
(* and the wait for the upstream.                                          *)

\* The log of the request of slot q as its method, path, body and upstream
\* answer alone determine it: nothing for a request that reaches no handler
\* body, else the entry line with the values the handler names (path
\* parameters, the model of the body) and, once the upstream has answered, the
\* success line with values of the response or the error line with the
\* upstream's message.
LogWithoutHeaders(q) ==
    LET h == HandlerNamed(q.handler)
        entry == <<LogEntry("info", "request", LoggedAll(h.logs_in, q, NoReply))>>
    IN  IF q.handler \in {"", "health_check"} \/ ~Extracts(h, q.body) THEN <<>>
        ELSE IF q.reply = <<>> THEN entry
        ELSE IF q.reply[1].ok
        THEN Append(entry, LogEntry("info", "done",
                               LoggedAll(h.logs_out, q, q.reply[1])))
        ELSE Append(entry, LogEntry("error", "error", <<q.reply[1].error>>))

\* C21: the log records of a request, on the success path and on every
\* error path, are determined by its method, path, body and upstream answer:
\* no record holds a value taken from the Authorization header or from the
\* client configuration, so requests that differ only in the header value or
\* the credential leave the same log.
C21_LogIndependentOfCredential ==
    \A r \in ReqIds :
        reqs[r].pc # "idle" => reqs[r].log = LogWithoutHeaders(reqs[r])

\* POST /v1/chat/completions with a credential that resolved has succeeded
\* and logged its two lines.
C21_Witness ==
    \E r \in ReqIds :
        /\ reqs[r].handler = "chat_completions"
        /\ reqs[r].resolution # <<>> /\ reqs[r].resolution[1].ok
        /\ reqs[r].reply # <<>> /\ reqs[r].reply[1].ok
        /\ Len(reqs[r].log) = 2
        /\ reqs[r].log[1].args = <<"gpt">>

\* C22: whatever else is wrong with a request whose handler body runs, when
\* its Authorization header is missing or invalid it ends with the credential
\* error of the resolver and without an upstream call.
C22_ResolutionFirst ==
    \A r \in ReqIds :
        LET q == reqs[r]
            h == HandlerNamed(q.handler)
            client == create_client_from_headers(q.headers, h.use_beta)
        IN  (Routed(q) /\ Extracts(h, q.body) /\ ~client.ok)
               => /\ q.pc = "done"
                  /\ q.calls = <<>>
                  /\ q.response = <<into_response(<<client.error>>)>>

\* The (method, pattern) pairs the interface list of the specification
\* names for the threads and responses families, read method by method, with
\* the family that is to serve them.
ListedPairs ==
    { [method |-> m, pattern |-> p, family |-> "threads"] :
        m \in {"POST", "GET", "DELETE"},
        p \in { <<"v1", "threads">>, <<"v1", "threads", "{thread_id}">> } }
    \cup
    { [method |-> m, pattern |-> p, family |-> "responses"] :
        m \in {"POST", "GET", "DELETE"},
        p \in { <<"v1", "responses">>, <<"v1", "responses", "{response_id}">>,
                <<"v1", "responses", "{response_id}", "cancel">> } }

\* The listed pairs that create_router registers.
RegisteredListedPairs ==
    {l \in ListedPairs :
        \E route \in RouteTable : route.method = l.method /\ route.pattern = l.pattern}

\* No (method, pattern) pair is bound to two handlers, and no two routes of
\* dispatch handlers invoke the same upstream operation.
RouteTableOneToOne ==
    /\ \A a, b \in RouteTable :
          (a.method = b.method /\ a.pattern = b.pattern) => a = b
    /\ \A a, b \in RouteTable :
          (a # b /\ a.handler # "health_check" /\ b.handler # "health_check")
              => /\ a.handler # b.handler
                 /\ HandlerNamed(a.handler).op # HandlerNamed(b.handler).op

\* The route the request of slot q was sent to: its method and the pattern
\* its path matches.
ListedFor(q) ==
    LET matched == MatchedPattern(q.path)
    IN  {l \in ListedPairs : l.method = q.method /\ matched = <<l.pattern>>}

ReturnsOnAnswer(r) ==
    /\ reqs'[r].pc = "done"
    /\ Len(reqs'[r].reply) = 1
    /\ Len(reqs'[r].response) = 1
    /\ reqs'[r].calls = reqs[r].calls

\* C24: a request whose call is unanswered is suspended and has no response
\* (no timeout, no fallback); the only step that changes a suspended request
\* is the answer of the upstream, which gives it exactly one response and no
\* second call; and, the upstream answering every call, every suspended
\* request eventually is done with one response.
C24_ResponseWhenUpstreamResolves ==
    /\ [](\A r \in DOMAIN reqs :
            (reqs[r].calls # <<>> /\ reqs[r].reply = <<>>)
                => (reqs[r].pc = "awaiting" /\ reqs[r].response = <<>>))
    /\ [][\A r \in DOMAIN reqs :
            reqs[r].pc = "awaiting" => (reqs'[r] = reqs[r] \/ ReturnsOnAnswer(r))]_vars
    /\ \A r \in 1..MaxConcurrent :
          (reqs[r].pc = "awaiting")
              ~> (reqs[r].pc = "done" /\ Len(reqs[r].reply) = 1
                  /\ Len(reqs[r].response) = 1)

\* The call of POST /v1/threads/id/runs was answered with a failure and the
\* request is done with one response, while a request of create_image is
\* still suspended.
C24_Witness ==
    \E r1, r2 \in DOMAIN reqs :
        /\ reqs[r1].handler = "create_run"
        /\ reqs[r1].pc = "done"
        /\ Len(reqs[r1].reply) = 1 /\ ~reqs[r1].reply[1].ok
        /\ Len(reqs[r1].response) = 1
        /\ reqs[r2].handler = "create_image"
        /\ reqs[r2].pc = "awaiting"

---------------------------------------------------------------------------
(* Claims about repeated prefixes, repeated file fields and overlapping    *)
(* routes.                                                                 *)

\* The value starts with two scheme prefixes, "Bearer " or "bearer " each.
DoublePrefixed(v) == HasScheme(v) /\ HasScheme(AfterScheme(v))

\* C25 as stated: for every X, "Bearer bearer X" resolves to "bearer X" and
\* "bearer Bearer X" to "Bearer X" (one prefix stripped, the rest kept), and
\* "Bearer" without a space resolves to the credential "Bearer".
C25_AsClaimed ==
    \A i \in DOMAIN calls :
        /\ (HasAuth /\ DoublePrefixed(SentValue))
              => /\ Succeeded(calls[i].result)
                 /\ Credential(calls[i].result) = AfterScheme(SentValue)
        /\ (HasAuth /\ SentValue = BearerNoSpace)
              => /\ Succeeded(calls[i].result)
                 /\ Credential(calls[i].result) = BearerNoSpace

\* C25: for every X representable as text, a value of two prefixes followed
\* by X ("Bearer bearer X", "bearer Bearer X", also a prefix twice) resolves
\* to the credential made of the second prefix and X: one prefix is stripped
\* and what is left, though it starts with a prefix, is not stripped again;
\* "Bearer" without a space resolves to the credential "Bearer".
C25_AtMostOnePrefixStripped ==
    \A i \in DOMAIN calls :
        /\ (HasAuth /\ DoublePrefixed(SentValue) /\ IsText(SentValue))
              => /\ Succeeded(calls[i].result)
                 /\ Credential(calls[i].result) = AfterScheme(SentValue)
                 /\ HasScheme(Credential(calls[i].result))
        /\ (HasAuth /\ SentValue = BearerNoSpace)
              => /\ Succeeded(calls[i].result)
                 /\ Credential(calls[i].result) = BearerNoSpace

\* "Bearer bearer k" has resolved to the credential "bearer k".
C25_Witness ==
    /\ HasAuth
    /\ SentValue = Bearer_ \o bearer_ \o <<107>>
    /\ \E i \in DOMAIN calls :
          /\ Succeeded(calls[i].result)
          /\ Credential(calls[i].result) = bearer_ \o <<107>>

\* C26: the file name and the bytes of an upload sent upstream are those of
\* the last field named "file" of the body; and an upload whose body reads to
\* its end and whose last "file" field has no file name ends with "Filename
\* not provided" and without an upstream call, whether or not an earlier
\* "file" field had a file name.
C26_LastFileFieldDecides ==
    \A r \in DOMAIN reqs :
        LET q == reqs[r]
        IN  /\ (IsUpload(q) /\ q.calls # <<>>)
                  => /\ FieldsNamed(q.body, "file") # {}
                     /\ LastField(q.body, "file").file_name # <<>>
                     /\ q.calls[1].payload[1] = LastField(q.body, "file").file_name[1]
                     /\ q.calls[1].payload[2] = LastField(q.body, "file").data
            /\ (/\ IsUpload(q)
                /\ WellRead(q.body)
                /\ FieldsNamed(q.body, "file") # {}
                /\ LastField(q.body, "file").file_name = <<>>)
                  => /\ q.pc = "done"
                     /\ q.calls = <<>>
                     /\ q.response =
                           <<[status |-> 500,
                              body |-> <<"Oshibka: ", "Filename not provided">>]>>

\* An upload with a purpose and two file fields, the first with a file name
\* and the last without, has ended with "Filename not provided".
C26_Witness ==
    \E r \in DOMAIN reqs :
        /\ IsUpload(reqs[r])
        /\ WellRead(reqs[r].body)
        /\ FieldsNamed(reqs[r].body, "purpose") # {}
        /\ \E i \in FieldsNamed(reqs[r].body, "file") :
              reqs[r].body.parts[i].file_name # <<>>
        /\ LastField(reqs[r].body, "file").file_name = <<>>
        /\ reqs[r].calls = <<>>
        /\ reqs[r].response =
              <<[status |-> 500, body |-> <<"Oshibka: ", "Filename not provided">>]>>

\* C27: a request on /v1/threads/runs is routed by the literal pattern: POST
\* runs create_thread_and_run, with no thread_id captured, and never
\* modify_thread; any other method reaches no handler, not even one
\* registered on /v1/threads/{thread_id}.  Every request that reaches a
\* handler reaches exactly the one registered for its method and matched
\* pattern, and its call is that handler's operation.
C27_LiteralRouteWins ==
    \A r \in ReqIds :
        LET q == reqs[r]
            matched == MatchedPattern(q.path)
        IN  /\ (q.pc # "idle" /\ q.path = <<"v1", "threads", "runs">>) =>
                  IF q.method = "POST"
                  THEN /\ q.handler = "create_thread_and_run"
                       /\ q.calls # <<>> =>
                             /\ q.calls[1].op = create_thread_and_run.op
                             /\ q.calls[1].payload = <<"request">>
                  ELSE /\ q.handler = ""
                       /\ q.response = <<[status |-> 405, body |-> <<>>]>>
            /\ (q.pc # "idle" /\ q.handler # "") =>
                  /\ Cardinality({route \in RouteTable :
                                     /\ route.method = q.method
                                     /\ <<route.pattern>> = matched}) = 1
                  /\ Len(q.calls) <= 1
                  /\ q.calls # <<>> => q.calls[1].op = HandlerNamed(q.handler).op

\* POST /v1/threads/runs with a credential that resolves is suspended in
\* create_thread_and_run.
C27_Witness ==
    \E r \in ReqIds :
        /\ reqs[r].method = "POST"
        /\ reqs[r].path = <<"v1", "threads", "runs">>
        /\ reqs[r].handler = "create_thread_and_run"
        /\ reqs[r].pc = "awaiting"
        /\ reqs[r].calls[1].op = create_thread_and_run.op

====
